---- MODULE Spec2Model ----
(***************************************************************************)
(* The frame streaming path of citra_qt/bootmanager.cpp:                   *)
(* GRenderWindow::processFrameData and the helpers it calls (socketSend,   *)
(* readConfirmation, jpegCompress, squareDiff, copySquare, imageDiff).     *)
(*                                                                         *)
(* A frame is a 240x320 RGB raster, i.e. 30x40 = 1200 blocks of 8x8        *)
(* pixels in row-major order.  The frames fed to the pump are made of      *)
(* runs of equal blocks (RunLen): a frame is the tuple of the block        *)
(* contents of its runs, and a block content is an index into Palette,     *)
(* whose entries are the 192 bytes of an 8x8 block.  imageDiff runs the    *)
(* same loop body for every block of a run, so its per-block results are   *)
(* kept per run.                                                           *)
(*                                                                         *)
(* Spec and SpecWindow run the pump over a peer that is always reachable,  *)
(* SpecLink and SpecDown over a peer that comes and goes or is never       *)
(* reachable, with connections that can be lost at any wait of a call;     *)
(* SpecHist is SpecLink with the supplied frames recorded.  SpecSample     *)
(* follows the checker sampling loop row by row on the 240x320 frame, and  *)
(* SpecDiff runs imageDiff byte by byte on small rasters.                  *)
(***************************************************************************)
EXTENDS Integers, Sequences, FiniteSets, TLC

\* ---- program constants ------------------------------------------------
FM_NONE == 0
FM_FULL == 1
FM_DIFF == 2
FM_CHECKER == 3
FM_CHECKER_COMPL == 4

MIN_SQDIFF == 8 * 8 * 3
FrameWidth == 240
FrameHeight == 320
TotalBlocks == (FrameWidth \div 8) * (FrameHeight \div 8)
CheckerThreshold == ((240 \div 8) * (320 \div 8)) \div 3
DiffMapSize == ((240 \div 8) * (320 \div 8)) \div 8
ForceLimit == 100
ConnectWait == 300
U16 == 65536

NULL == <<>>

\* ---- block contents ---------------------------------------------------
BlockBytes == 8 * 8 * 3
BlkZero == [k \in 1..BlockBytes |-> 0]
BlkEdge == [k \in 1..BlockBytes |-> 1]
BlkWhite == [k \in 1..BlockBytes |-> 255]
\* Z: black; E: every byte 1 (192 away from Z, exactly MIN_SQDIFF); W: white.
Palette == [Z |-> BlkZero, E |-> BlkEdge, W |-> BlkWhite]
BlockIds == DOMAIN Palette

Abs(x) == IF x < 0 THEN -x ELSE x

\* squareDiff: the pixels of the two blocks are walked in row-major order;
\* b1, b2 hold the 8 rows of 8 RGB triplets of the block (the row stride of
\* the enclosing image is already taken out).
RECURSIVE squareDiffFrom(_, _, _, _)
squareDiffFrom(b1, b2, p, diff) ==
    IF p = 64 THEN 0
    ELSE LET d == diff + Abs(b1[3 * p + 1] - b2[3 * p + 1])
                       + Abs(b1[3 * p + 2] - b2[3 * p + 2])
                       + Abs(b1[3 * p + 3] - b2[3 * p + 3])
         IN IF d > MIN_SQDIFF THEN 1 ELSE squareDiffFrom(b1, b2, p + 1, d)

squareDiff(b1, b2) == squareDiffFrom(b1, b2, 0, 0)

\* squareDiff on every pair of palette entries, evaluated once.
SqDiffOf == [a \in BlockIds, b \in BlockIds |-> squareDiff(Palette[a], Palette[b])]

\* ---- frames -------------------------------------------------------------
\* Lengths of the runs of equal blocks, in row-major block order.
RunLen == <<400, 1, 799>>
NumRuns == Len(RunLen)
Runs == 1..NumRuns

\* The frames the renderer supplies (palette index per run).
FrameInputs == { <<"Z", "Z", "Z">>, <<"W", "Z", "Z">>, <<"W", "W", "Z">>,
                 <<"W", "W", "W">>, <<"Z", "E", "Z">> }

\* Sizes in bytes the JPEG encoder may produce for an image.
EncSizes == {1871, 67407}

\* Acknowledgment bytes the peer may send.
AckBytes == {255}
\* What the socket may hold for readConfirmation: nothing, or a byte of the peer.
Available == {<<>>} \cup {<<b>> : b \in AckBytes}

RECURSIVE RunSum(_, _)
RunSum(flag, r) ==
    IF r > NumRuns THEN 0
    ELSE (IF flag[r] THEN RunLen[r] ELSE 0) + RunSum(flag, r + 1)

\* Mutant of copySquare: the block of lastImage is left as it was.
copySquare_Skip(dst, src) == dst

\* copySquare(dst, src, rowStride): the block dst after the copy.
copySquare(dst, src) == src

\* imageDiff(currentImage, width, height) over the global lastImage: for each
\* block squareDiff decides; a differing block sets its diffMap bit and is
\* copied into lastImage (copySquare), any other block clears its bit.  The
\* int16_t count is at most 1200 and cannot wrap.
imageDiff(last, cur) ==
    LET sDiff == [r \in Runs |-> SqDiffOf[last[r], cur[r]] # 0]
    IN [ numSqDiff |-> RunSum(sDiff, 1),
         lastImage |-> [r \in Runs |->
                          IF sDiff[r] THEN copySquare(last[r], cur[r]) ELSE last[r]],
         diffMap   |-> sDiff ]

\* ---- state ----------------------------------------------------------------
VARIABLES
    sock,             \* state of the static QTcpSocket
    waitConnection,   \* static unsigned waitConnection
    peer,             \* environment: is the peer reachable
    lastImage,        \* global lastImage (NULL until the first frame)
    diffMap,          \* global diffMap, one bit per block (kept per run)
    forceFrameCount,  \* static int forceFrameCount
    checker,          \* static int checker
    lastFrameMode,    \* static uint16_t lastFrameMode
    call,             \* kind of the last call: "init" (none yet), "poll", "frame"
    frameData,        \* frame passed to the last frame-bearing call
    numSq,            \* local numSq of the last frame-bearing call
    ranDiff,          \* did the last call run imageDiff
    encSize,          \* bytes jpegCompress produced in the last call (0: not called)
    written,          \* what the last call handed to sock.write, in order
    retval,           \* value returned by the last call
    attempt,          \* did the last call call connectToHost
    avail,            \* what the socket held for the last readConfirmation
    skip,             \* initial value of skip in the last checker sampling (-1: none yet)
    frames,           \* observer: frame-bearing calls so far, counted up to 2
    sinceFull,        \* observer: frame-bearing calls since the last FULL
    same,             \* observer: calls repeating the first frame right after it (-1: none)
    idleCalls,        \* observer: calls since the last connection attempt
    fcalls,           \* observer: frame-bearing calls so far, where they are limited
    drops,            \* observer: frame-bearing calls that found the socket not connected
    hist,             \* observer: the frames supplied so far, where they are recorded
    smp,              \* the checker sampling loops of two consecutive checker calls
    px                \* imageDiff on pixel rasters: its arguments and its results

vars == <<sock, waitConnection, peer, lastImage, diffMap, forceFrameCount,
          checker, lastFrameMode, call, frameData, numSq, ranDiff, encSize,
          written, retval, attempt, avail, skip, frames, sinceFull, same,
          idleCalls, fcalls, drops, hist, smp, px>>

\* The variables of the pump and its observers.
pumpVars == <<sock, waitConnection, peer, lastImage, diffMap, forceFrameCount,
              checker, lastFrameMode, call, frameData, numSq, ranDiff, encSize,
              written, retval, attempt, avail, skip, frames, sinceFull, same,
              idleCalls, fcalls, drops, hist>>

\* The statics and globals after construction, before any call.
Statics ==
    /\ sock = "Unconnected"
    /\ waitConnection = 0
    /\ lastImage = NULL
    /\ diffMap = [r \in Runs |-> FALSE]
    /\ forceFrameCount = 0
    /\ checker = 0
    /\ lastFrameMode = FM_NONE
    /\ call = "init"
    /\ frameData = NULL
    /\ numSq = 0
    /\ ranDiff = FALSE
    /\ encSize = 0
    /\ written = <<>>
    /\ retval = 0
    /\ attempt = FALSE
    /\ avail = <<>>
    /\ skip = -1
    /\ frames = 0
    /\ sinceFull = 0
    /\ same = -1
    /\ idleCalls = 0
    /\ fcalls = 0
    /\ drops = 0
    /\ hist = <<>>

\* smp and px while the loops they follow are not running.
SmpIdle == [stage |-> "idle"]
PxIdle == [stage |-> "idle"]

Init == Statics /\ peer = "up" /\ smp = SmpIdle /\ px = PxIdle

\* ---- mode selection (processFrameData, lines 606-621) ---------------------
\* Mutant of PreMode: the forced keyframe comes one count late.
PreMode_Late(ffc, lfm) ==
    IF ffc > ForceLimit + 1 THEN FM_FULL
    ELSE IF lfm = FM_CHECKER THEN FM_CHECKER_COMPL
    ELSE FM_NONE

\* Mutant of PreMode: the complementary phase is tested before the counter.
PreMode_ComplFirst(ffc, lfm) ==
    IF lfm = FM_CHECKER THEN FM_CHECKER_COMPL
    ELSE IF ffc > ForceLimit THEN FM_FULL
    ELSE FM_NONE

\* frameMode before the previous-frame buffer is looked at.
PreMode(ffc, lfm) ==
    IF ffc > ForceLimit THEN FM_FULL
    ELSE IF lfm = FM_CHECKER THEN FM_CHECKER_COMPL
    ELSE FM_NONE

\* Mutant of DiffMode: >= instead of > against the checker threshold.
DiffMode_GE(n) ==
    IF n >= CheckerThreshold THEN FM_CHECKER
    ELSE IF n > 0 THEN FM_DIFF
    ELSE FM_NONE

\* Mutant of DiffMode: the threshold is the block count, not a third of it.
DiffMode_Total(n) ==
    IF n > TotalBlocks THEN FM_CHECKER
    ELSE IF n > 0 THEN FM_DIFF
    ELSE FM_NONE

\* frameMode from the number of differing blocks (lines 617-619).
DiffMode(n) ==
    IF n > CheckerThreshold THEN FM_CHECKER
    ELSE IF n > 0 THEN FM_DIFF
    ELSE FM_NONE

\* Mutant of FirstImage: the buffer is allocated but the frame is not copied.
FirstImage_Blank(frame) == [r \in Runs |-> "Z"]

\* lastImage after malloc and memcpy of the first frame (lines 612-613).
FirstImage(frame) == frame

\* The selection: mode, numSq, whether imageDiff ran, new lastImage/diffMap.
Select(ffc, lfm, last, dmap, frame) ==
    LET pre == PreMode(ffc, lfm)
    IN IF last = NULL
       THEN [mode |-> FM_FULL, numSq |-> 0, ran |-> FALSE,
             lastImage |-> FirstImage(frame), diffMap |-> dmap]
       ELSE IF pre # FM_FULL /\ pre # FM_CHECKER_COMPL
       THEN LET d == imageDiff(last, frame)
            IN [mode |-> DiffMode(d.numSqDiff), numSq |-> d.numSqDiff,
                ran |-> TRUE, lastImage |-> d.lastImage, diffMap |-> d.diffMap]
       ELSE [mode |-> pre, numSq |-> 0, ran |-> FALSE,
             lastImage |-> last, diffMap |-> dmap]

\* Mutant of NextForceCount: DIFF advances the counter like a checker phase.
NextForceCount_Diff3(ffc, m) ==
    IF m = FM_NONE THEN ffc + 1
    ELSE IF m = FM_FULL THEN 0
    ELSE ffc + 3

\* Mutant of NextForceCount: FM_NONE leaves the counter alone.
NextForceCount_NoneFree(ffc, m) ==
    IF m = FM_NONE THEN ffc
    ELSE IF m = FM_FULL THEN 0
    ELSE IF m = FM_DIFF THEN ffc + 5
    ELSE ffc + 3

\* Mutant of NextForceCount: a frame that cannot be sent does not count.
NextForceCount_Sent(ffc, m) ==
    IF sock # "Connected" /\ (waitConnection # 0 \/ peer # "up") THEN ffc
    ELSE IF m = FM_NONE THEN ffc + 1
    ELSE IF m = FM_FULL THEN 0
    ELSE IF m = FM_DIFF THEN ffc + 5
    ELSE ffc + 3

\* forceFrameCount after a call that selected mode m.
NextForceCount(ffc, m) ==
    IF m = FM_NONE THEN ffc + 1
    ELSE IF m = FM_FULL THEN 0
    ELSE IF m = FM_DIFF THEN ffc + 5
    ELSE ffc + 3

NextChecker(chk, m) ==
    IF m = FM_CHECKER \/ m = FM_CHECKER_COMPL THEN (chk + 1) % 2 ELSE chk

\* uint16_t dataSize = outSize
DataSize(outSz) == outSz % U16

\* Mutant of SendsNone: FM_NONE sends nothing.
SendsNone_Silent(m) == <<>>

\* The socketSend of the FM_NONE branch (line 624).
SendsNone(m) == << <<"mode", m>> >>

\* The socketSend calls of a frame-bearing call, in order.
Sends(m, chk, outSz) ==
    IF m = FM_NONE THEN SendsNone(m)
    ELSE IF m = FM_FULL
    THEN << <<"mode", m>>, <<"len", DataSize(outSz)>>, <<"data", DataSize(outSz)>> >>
    ELSE IF m = FM_DIFF
    THEN << <<"mode", m>>, <<"len", DataSize(outSz)>>, <<"map", DiffMapSize>>,
            <<"data", DataSize(outSz)>> >>
    ELSE << <<"mode", 3 + chk>>, <<"len", DataSize(outSz)>>,
            <<"data", DataSize(outSz)>> >>

\* ---- transport (lines 448-466, 590-597) -----------------------------------
\* Connection maintenance at the start of every call; a connection attempt
\* succeeds within waitForConnected iff the peer is reachable.
SockAfterMaint ==
    IF sock # "Connected" /\ waitConnection = 0
    THEN (IF peer = "up" THEN "Connected" ELSE "Unconnected")
    ELSE sock

\* Mutant of WaitAfterMaint: the counter also runs while connected.
WaitAfterMaint_Ticking ==
    IF waitConnection = 0 THEN ConnectWait ELSE waitConnection - 1

WaitAfterMaint ==
    IF sock # "Connected"
    THEN (IF waitConnection = 0 THEN ConnectWait ELSE waitConnection - 1)
    ELSE waitConnection

\* Does this call reach connectToHost (lines 590-594).
ConnectAttempt == sock # "Connected" /\ waitConnection = 0

\* Mutants of SentPrefix: socketSend writes whatever the state of the socket.
SentPrefix_Always(s0, sends, notice) == sends
SentPrefix_Blind(s0, sends, notice) ==
    IF notice = 0 \/ notice > Len(sends) THEN sends ELSE SubSeq(sends, 1, notice)

\* socketSend is a no-op unless the socket is connected.  notice = j > 0 means
\* that the j-th Qt call of this invocation that waits on the socket (the
\* waitForBytesWritten of the j-th send, or the waitForReadyRead of
\* readConfirmation after the sends) finds the connection lost; 0 means that
\* none does.  The j-th send itself was handed to sock.write before.
SentPrefix(s0, sends, notice) ==
    IF s0 # "Connected" THEN <<>>
    ELSE IF notice = 0 \/ notice > Len(sends) THEN sends
    ELSE SubSeq(sends, 1, notice)

SockAfterCall(s0, notice) ==
    IF s0 = "Connected" /\ notice > 0 THEN "Unconnected" ELSE s0

\* Mutant of readConfirmation: nothing is read.
readConfirmation_Deaf(s1, rd) == 0

\* readConfirmation(sock): rd is what bytesAvailable() finds; the byte read,
\* 0 if there is none.
readConfirmation(s1, rd) ==
    IF Len(rd) > 0 THEN rd[1] ELSE 0

\* ---- the handler ----------------------------------------------------------
\* processFrameData(layout, frameData, address) with a frame: outSz is what
\* the encoder produces, rd what the socket has to read, notice where the
\* call finds a lost connection.  The selection is computed once per call.
\* A connection can be lost at any wait of the call, also one that this call
\* has just made; peer only says whether a connection attempt succeeds.
\* The peer's bytes arrive over the connection: there is nothing to read on a
\* socket that is not connected after the maintenance.
PumpFrame(frame, outSz, notice, rd) ==
    \E sel \in {Select(forceFrameCount, lastFrameMode, lastImage, diffMap, frame)} :
    LET s0  == SockAfterMaint
        snd == Sends(sel.mode, checker, outSz)
        s1  == SockAfterCall(s0, notice)
    IN /\ notice \in 0..(Len(snd) + 1)
       /\ (notice > 0 => s0 = "Connected")
       /\ (Len(rd) > 0 => s0 = "Connected")
       /\ sock' = s1
       /\ waitConnection' = WaitAfterMaint
       /\ lastImage' = sel.lastImage
       /\ diffMap' = sel.diffMap
       /\ lastFrameMode' = sel.mode
       /\ forceFrameCount' = NextForceCount(forceFrameCount, sel.mode)
       /\ checker' = NextChecker(checker, sel.mode)
       /\ call' = "frame"
       /\ frameData' = frame
       /\ numSq' = sel.numSq
       /\ ranDiff' = sel.ran
       /\ encSize' = IF sel.mode = FM_NONE THEN 0 ELSE outSz
       /\ written' = SentPrefix(s0, snd, notice)
       /\ retval' = readConfirmation(s1, rd)
       /\ attempt' = ConnectAttempt
       /\ avail' = rd
       /\ skip' = IF sel.mode = FM_CHECKER \/ sel.mode = FM_CHECKER_COMPL
                  THEN checker ELSE skip
       /\ frames' = IF frames < 2 THEN frames + 1 ELSE frames
       /\ UNCHANGED peer

\* processFrameData with frameData = NULL: maintenance and poll only.
PollOnly(notice, rd) ==
    LET s0 == SockAfterMaint
        s1 == SockAfterCall(s0, notice)
    IN /\ notice \in 0..1
       /\ (notice > 0 => s0 = "Connected")
       /\ (Len(rd) > 0 => s0 = "Connected")
       /\ sock' = s1
       /\ waitConnection' = WaitAfterMaint
       /\ call' = "poll"
       /\ written' = <<>>
       /\ retval' = readConfirmation(s1, rd)
       /\ attempt' = ConnectAttempt
       /\ avail' = rd
       /\ UNCHANGED <<peer, lastImage, diffMap, forceFrameCount, checker,
                      lastFrameMode, frameData, numSq, ranDiff, encSize, skip,
                      frames>>

\* The scenario counter: 0 after the first frame-bearing call, then the
\* number of frame-bearing calls that followed it, as long as each of them
\* supplied the frame of the first call again and there were at most
\* ScenarioLen of them; -1 outside the scenario.
ScenarioLen == 50

SameAfter(frame) ==
    IF lastImage = NULL THEN 0
    ELSE IF same >= 0 /\ same < ScenarioLen /\ frame = frameData THEN same + 1
    ELSE -1

Frame == \E f \in FrameInputs, o \in EncSizes, rd \in Available :
            /\ PumpFrame(f, o, 0, rd)
            /\ same' = SameAfter(f)
            /\ UNCHANGED <<sinceFull, idleCalls, fcalls, drops, hist, smp, px>>

Poll == \E rd \in Available :
            /\ PollOnly(0, rd)
            /\ UNCHANGED <<sinceFull, same, idleCalls, fcalls, drops, hist, smp, px>>

Next == Frame \/ Poll

Spec == Init /\ [][Next]_vars

\* The same pump with the observer sinceFull counting the frame-bearing calls
\* since the last FM_FULL, fed a smaller choice of frames and encoder sizes.
WindowFrames == { <<"Z", "Z", "Z">>, <<"W", "Z", "Z">>, <<"W", "W", "W">> }
WindowSizes == {1871}

FrameCounted == \E f \in WindowFrames, o \in WindowSizes :
                    /\ PumpFrame(f, o, 0, <<>>)
                    /\ sinceFull' = IF lastFrameMode' = FM_FULL THEN 0 ELSE sinceFull + 1
                    /\ UNCHANGED <<same, idleCalls, fcalls, drops, hist, smp, px>>

PollCounted ==
    /\ PollOnly(0, <<>>)
    /\ UNCHANGED <<sinceFull, same, idleCalls, fcalls, drops, hist, smp, px>>

NextWindow == FrameCounted \/ PollCounted

SpecWindow == Init /\ [][NextWindow]_vars

\* ---- the pump over a peer that comes and goes ------------------------------
\* The renderer supplies at most MaxFrames frames, at any calls, and polls in
\* all the other calls; a connected socket may find the connection lost at
\* any of its Qt calls, or not at all.
MaxFrames == 4
LinkFrames == { <<"Z", "Z", "Z">>, <<"W", "W", "W">> }
LinkSizes == {1871}

\* idleCalls after a call: the calls in a row, up to this one, that found the
\* socket not connected and made no connection attempt.
IdleAfter ==
    IF ConnectAttempt THEN 0
    ELSE IF sock # "Connected" THEN idleCalls + 1
    ELSE 0

\* drops after a frame-bearing call.
DropsAfter == IF SockAfterMaint # "Connected" THEN drops + 1 ELSE drops

LinkFrame ==
    /\ fcalls < MaxFrames
    /\ \E f \in LinkFrames, o \in LinkSizes, n \in 0..5, rd \in Available :
          PumpFrame(f, o, n, rd)
    /\ fcalls' = fcalls + 1
    /\ idleCalls' = IdleAfter
    /\ drops' = DropsAfter
    /\ UNCHANGED <<sinceFull, same, hist, smp, px>>

LinkPoll ==
    /\ \E n \in 0..1, rd \in Available : PollOnly(n, rd)
    /\ idleCalls' = IdleAfter
    /\ UNCHANGED <<sinceFull, same, fcalls, drops, hist, smp, px>>

\* Between two calls the peer goes away or comes back.
PeerChange ==
    /\ peer' = IF peer = "up" THEN "down" ELSE "up"
    /\ UNCHANGED <<sock, waitConnection, lastImage, diffMap, forceFrameCount,
                   checker, lastFrameMode, call, frameData, numSq, ranDiff,
                   encSize, written, retval, attempt, avail, skip, frames,
                   sinceFull, same, idleCalls, fcalls, drops, hist, smp, px>>

InitLink == Statics /\ peer \in {"up", "down"} /\ smp = SmpIdle /\ px = PxIdle

NextLink == LinkFrame \/ LinkPoll \/ PeerChange

SpecLink == InitLink /\ [][NextLink]_vars

\* The same calls with a peer address that is never reachable.
InitDown == Statics /\ peer = "down" /\ smp = SmpIdle /\ px = PxIdle

NextDown == LinkFrame \/ LinkPoll

SpecDown == InitDown /\ [][NextDown]_vars

\* The pump over a peer that comes and goes, with the frames it is given
\* recorded in hist in the order of the calls.
HistFrame ==
    /\ fcalls < MaxFrames
    /\ \E f \in LinkFrames, o \in LinkSizes, n \in 0..5, rd \in Available :
          PumpFrame(f, o, n, rd)
    /\ hist' = Append(hist, frameData')
    /\ fcalls' = fcalls + 1
    /\ idleCalls' = IdleAfter
    /\ drops' = DropsAfter
    /\ UNCHANGED <<sinceFull, same, smp, px>>

NextHist == HistFrame \/ LinkPoll \/ PeerChange

SpecHist == InitLink /\ [][NextHist]_vars

\* ---- checker sampling (lines 643-660) ---------------------------------------
\* The inner loop of the sampling, from where it stands up to pixel to.  st
\* holds the loop's variables: i, skip, and cols, the columns of the row
\* whose pixel went to out so far, in order.
RECURSIVE samplePixels(_, _)
samplePixels(to, st) ==
    IF st.i = to THEN st
    ELSE IF st.skip = 0
    THEN samplePixels(to, [i |-> st.i + 1, skip |-> 1, cols |-> Append(st.cols, st.i)])
    ELSE samplePixels(to, [i |-> st.i + 1, skip |-> 0, cols |-> st.cols])

\* The inner loop up to the end of the row, its passes evaluated in
\* stretches of width/8 pixels.
RECURSIVE sampleUpTo(_, _)
sampleUpTo(width, st) ==
    IF st.i = width THEN st
    ELSE sampleUpTo(width, samplePixels(st.i + width \div 8, st))

\* The inner loop over a whole row entered with skip = sk.
sampleRow(width, sk) == sampleUpTo(width, [i |-> 0, skip |-> sk, cols |-> <<>>])

\* Mutant of RowEndSkip: the toggle at the end of a row is missing.
RowEndSkip_Same(sk) == sk

\* The skip = !skip after the inner loop (line 659).
RowEndSkip(sk) == 1 - sk

\* The sampling of a checker call that finds the static checker at chk, at
\* its entry: count is the number of pixels written to out, cols the columns
\* sampled in the row just done.
SampleEntry(chk) == [checker |-> chk, skip |-> chk, count |-> 0, cols |-> <<>>]

\* One pass of the outer loop of a call.
SampleRowOf(c) ==
    LET r == sampleRow(FrameWidth, c.skip)
    IN [c EXCEPT !.skip = RowEndSkip(r.skip),
                 !.count = @ + Len(r.cols),
                 !.cols = r.cols]

\* Two consecutive checker calls, FM_CHECKER then FM_CHECKER_COMPL, followed
\* side by side: smp.first and smp.second are the samplings of the two calls,
\* smp.j the rows both have done.  The second call finds checker as the first
\* call left it (line 668); poll-only calls in between do not touch it.
SampleRowStep ==
    /\ smp.stage = "rows"
    /\ smp.j < FrameHeight
    /\ \E a \in {SampleRowOf(smp.first)}, b \in {SampleRowOf(smp.second)} :
          smp' = [smp EXCEPT !.j = @ + 1, !.first = a, !.second = b]
    /\ UNCHANGED <<pumpVars, px>>

\* The loops are left and each call toggles checker.
SampleCallEnd ==
    /\ smp.stage = "rows"
    /\ smp.j = FrameHeight
    /\ smp' = [smp EXCEPT
                 !.stage = "done",
                 !.first.checker = NextChecker(@, FM_CHECKER),
                 !.second.checker = NextChecker(@, FM_CHECKER_COMPL)]
    /\ UNCHANGED <<pumpVars, px>>

\* The first call is entered with checker 0 or 1.
InitSample ==
    /\ Statics /\ peer = "up" /\ px = PxIdle
    /\ \E c \in {0, 1} :
          smp = [stage |-> "rows", j |-> 0, first |-> SampleEntry(c),
                 second |-> SampleEntry(NextChecker(c, FM_CHECKER))]

NextSample == SampleRowStep \/ SampleCallEnd

SpecSample == InitSample /\ [][NextSample]_vars

\* ---- imageDiff on pixel rasters (lines 486-570) ----------------------------
\* An image is the sequence of its bytes; byte k of the sequence is the byte
\* at offset k - 1 of the buffer.  off is the offset a pointer stands at.

\* The 8 rows of 8 RGB triplets a pointer at off walks with += 3 per pixel and
\* += rowStride - 8*3 per row (squareDiff, copySquare, the src of putSquare).
BlockAt(img, off, rowStride) ==
    [k \in 1..BlockBytes |->
        img[off + ((k - 1) \div (8 * 3)) * rowStride + ((k - 1) % (8 * 3)) + 1]]

\* Mutant of WithBlockAt: the rows are written one after the other, the row
\* stride is not applied.
WithBlockAt_Packed(img, off, rowStride, blk) ==
    [x \in 1..Len(img) |->
        IF x - 1 >= off /\ x - 1 < off + BlockBytes THEN blk[x - off] ELSE img[x]]

\* img after the 8 rows of blk are written through such a pointer.
WithBlockAt(img, off, rowStride, blk) ==
    [x \in 1..Len(img) |->
        IF /\ x - 1 >= off
           /\ (x - 1 - off) \div rowStride < 8
           /\ (x - 1 - off) % rowStride < 8 * 3
        THEN blk[((x - 1 - off) \div rowStride) * (8 * 3) + ((x - 1 - off) % rowStride) + 1]
        ELSE img[x]]

\* Mutant of DiffBufOffset: every block is put at the start of diffBuf.
DiffBufOffset_Start(n) == 0

\* diffBuf + 8 * 8 * 3 * numSqDiff (line 555).
DiffBufOffset(n) == 8 * 8 * 3 * n

\* putSquare(dst, src, rowStride): dst advances by 3 per pixel only, so the
\* 8 rows of the block land one after the other.
putSquare(buf, dstOff, blk) == WithBlockAt(buf, dstOff, 8 * 3, blk)

\* diffMap[mapPos] |= mapMask.
SetBit(byte, mask) == IF (byte \div mask) % 2 = 1 THEN byte ELSE byte + mask

\* Mutant of ClearBit: the bit of a block that does not differ is left alone.
ClearBit_Keep(byte, mask) == byte

\* diffMap[mapPos] &= ~mapMask.
ClearBit(byte, mask) == IF (byte \div mask) % 2 = 1 THEN byte - mask ELSE byte

\* Mutant of NextMapPos: the bitmap never moves on to its next byte.
NextMapPos_Stuck(pos, mask) == pos

\* mapPos and mapMask after a block (lines 560-561).
NextMapPos(pos, mask) == IF mask = 128 THEN pos + 1 ELSE pos
NextMapMask(mask) == IF mask = 128 THEN 1 ELSE 2 * mask

\* The body of the inner loop of imageDiff (lines 551-563).  st holds the
\* locals i, j, numSqDiff, mapPos, mapMask, lPtr, cPtr and the buffers.
DiffBlock(st, rowStride) ==
    LET lb == BlockAt(st.lastImage, st.lPtr, rowStride)
        cb == BlockAt(st.currentImage, st.cPtr, rowStride)
        marked ==
            IF squareDiff(lb, cb) # 0
            THEN [st EXCEPT
                    !.diffMap[st.mapPos + 1] = SetBit(@, st.mapMask),
                    !.lastImage = WithBlockAt(@, st.lPtr, rowStride, copySquare(lb, cb)),
                    !.diffBuf = putSquare(@, DiffBufOffset(st.numSqDiff), cb),
                    !.numSqDiff = @ + 1]
            ELSE [st EXCEPT !.diffMap[st.mapPos + 1] = ClearBit(@, st.mapMask)]
    IN [marked EXCEPT
          !.mapMask = NextMapMask(st.mapMask),
          !.mapPos = NextMapPos(st.mapPos, st.mapMask),
          !.lPtr = @ + 8 * 3,
          !.cPtr = @ + 8 * 3,
          !.j = @ + 8]

\* The inner loop (line 550) from where st stands.
RECURSIVE imageDiffCols(_, _, _)
imageDiffCols(width, rowStride, st) ==
    IF st.j < width THEN imageDiffCols(width, rowStride, DiffBlock(st, rowStride))
    ELSE st

\* The outer loop (lines 549, 565-566) from where st stands.
RECURSIVE imageDiffRows(_, _, _, _)
imageDiffRows(width, height, rowStride, st) ==
    IF st.i < height
    THEN LET r == imageDiffCols(width, rowStride, [st EXCEPT !.j = 0])
         IN imageDiffRows(width, height, rowStride,
                [r EXCEPT !.lPtr = @ + (8 * rowStride) - rowStride,
                          !.cPtr = @ + (8 * rowStride) - rowStride,
                          !.i = @ + 8])
    ELSE st

\* imageDiff(currentImage, width, height) over the globals lastImage, diffBuf
\* and diffMap: the buffers and the locals as the loops leave them; numSqDiff
\* is the value returned.
imageDiffRaster(last, cur, dbuf, dmap, width, height) ==
    imageDiffRows(width, height, width * 3,
        [i |-> 0, j |-> 0, numSqDiff |-> 0, mapPos |-> 0, mapMask |-> 1,
         lPtr |-> 0, cPtr |-> 0, lastImage |-> last, currentImage |-> cur,
         diffBuf |-> dbuf, diffMap |-> dmap])

\* The rasters imageDiff is run on: width x height images made of 8x8 tiles,
\* given in row-major order of the blocks.
Raster(width, height, tiles) ==
    [x \in 1..(width * height * 3) |->
        LET y == (x - 1) \div (width * 3)
            c == (x - 1) % (width * 3)
        IN tiles[(y \div 8) * (width \div 8) + (c \div (8 * 3)) + 1]
                [(y % 8) * (8 * 3) + (c % (8 * 3)) + 1]]

\* E with the last byte one higher: 193 away from Z, one more than MIN_SQDIFF,
\* reached at the last pixel only.
BlkOver == [k \in 1..BlockBytes |-> IF k = BlockBytes THEN 2 ELSE 1]

\* Layouts (width, height) with the tiles their images are made of: those of
\* lastImage and those of the current frame.  The 72x8 raster has 9 blocks,
\* so that the bitmap goes on to its second byte.
Layouts == { [width |-> 16, height |-> 8,
              lastTiles |-> {BlkZero, BlkEdge, BlkOver, BlkWhite},
              tiles |-> {BlkZero, BlkEdge, BlkOver, BlkWhite}],
             [width |-> 8, height |-> 16,
              lastTiles |-> {BlkZero, BlkEdge, BlkOver, BlkWhite},
              tiles |-> {BlkZero, BlkEdge, BlkOver, BlkWhite}],
             [width |-> 16, height |-> 16,
              lastTiles |-> {BlkZero, BlkWhite}, tiles |-> {BlkZero, BlkWhite}],
             [width |-> 72, height |-> 8,
              lastTiles |-> {BlkZero}, tiles |-> {BlkZero, BlkWhite}] }

\* diffMap as earlier calls may have left it: all bits clear, or all set.
MapInputs == { [k \in 1..DiffMapSize |-> 0], [k \in 1..DiffMapSize |-> 255] }

InitDiff ==
    /\ Statics /\ peer = "up" /\ smp = SmpIdle
    /\ \E l \in Layouts, m \in MapInputs :
       \E lt \in [1..((l.width \div 8) * (l.height \div 8)) -> l.lastTiles],
          ct \in [1..((l.width \div 8) * (l.height \div 8)) -> l.tiles] :
          px = [stage |-> "in", width |-> l.width, height |-> l.height,
                lastImage |-> Raster(l.width, l.height, lt),
                currentImage |-> Raster(l.width, l.height, ct),
                diffBuf |-> [k \in 1..(l.width * l.height * 3) |-> 0],
                diffMap |-> m]

\* The call of imageDiff on the rasters drawn.
RunImageDiff ==
    /\ px.stage = "in"
    /\ \E r \in {imageDiffRaster(px.lastImage, px.currentImage, px.diffBuf,
                                  px.diffMap, px.width, px.height)} :
          px' = [stage |-> "out", width |-> px.width, height |-> px.height,
                 lastImage |-> px.lastImage, currentImage |-> px.currentImage,
                 diffBuf |-> px.diffBuf, diffMap |-> px.diffMap, res |-> r]
    /\ UNCHANGED <<pumpVars, smp>>

NextDiff == RunImageDiff

SpecDiff == InitDiff /\ [][NextDiff]_vars


\* ---- claims ---------------------------------------------------------------
\* A step is a frame-bearing call iff call' = "frame"; the unprimed variables
\* are the values at entry of that call, the primed ones those at its return.
\* lastFrameMode' is the mode the call selected.

\* C1: on every frame-bearing call after the first the mode is FM_FULL if
\* forceFrameCount > 100 at entry, else FM_CHECKER_COMPL if the last mode was
\* FM_CHECKER, and imageDiff runs in neither case; otherwise imageDiff runs and
\* the mode is FM_CHECKER for more than 400 differing blocks, FM_DIFF for 1 to
\* 400 and FM_NONE for none.
C1_DecisionOrder ==
    [][ (call' = "frame" /\ lastImage # NULL) =>
          IF forceFrameCount > 100
          THEN lastFrameMode' = FM_FULL /\ ~ranDiff'
          ELSE IF lastFrameMode = FM_CHECKER
          THEN lastFrameMode' = FM_CHECKER_COMPL /\ ~ranDiff'
          ELSE /\ ranDiff'
               /\ (numSq' > 400 => lastFrameMode' = FM_CHECKER)
               /\ (numSq' > 0 /\ numSq' <= 400 => lastFrameMode' = FM_DIFF)
               /\ (numSq' = 0 => lastFrameMode' = FM_NONE) ]_vars

\* A later call was forced to FM_FULL without running imageDiff.
C1_Witness ==
    call = "frame" /\ frames = 2 /\ lastFrameMode = FM_FULL /\ ~ranDiff

\* C2: the first frame-bearing call (lastImage still NULL), whatever the frame
\* and whatever poll-only calls came before, selects FM_FULL, makes lastImage a
\* copy of the frame and leaves forceFrameCount at 0.
C2_FirstFrame ==
    [][ (call' = "frame" /\ lastImage = NULL) =>
          /\ lastFrameMode' = FM_FULL
          /\ lastImage' = frameData'
          /\ forceFrameCount' = 0 ]_vars

\* The first frame-bearing call has returned, for a frame that is not black.
C2_Witness ==
    /\ call = "frame" /\ frames = 1
    /\ frameData = <<"W", "W", "Z">> /\ lastImage = frameData
    /\ lastFrameMode = FM_FULL /\ forceFrameCount = 0

\* C3: a frame-bearing call sets forceFrameCount to 0 after FM_FULL and adds 1
\* after FM_NONE, 5 after FM_DIFF and 3 after either checker phase; no call
\* that does not select FM_FULL lowers it.
C3_CounterRule ==
    [][ /\ (call' = "frame" =>
              forceFrameCount' =
                 IF lastFrameMode' = FM_FULL THEN 0
                 ELSE IF lastFrameMode' = FM_NONE THEN forceFrameCount + 1
                 ELSE IF lastFrameMode' = FM_DIFF THEN forceFrameCount + 5
                 ELSE forceFrameCount + 3)
        /\ ((call' = "poll" \/ lastFrameMode' # FM_FULL) =>
              forceFrameCount' >= forceFrameCount) ]_vars

\* A FM_DIFF call took the counter from 100 to 105.
C3_Witness ==
    call = "frame" /\ lastFrameMode = FM_DIFF /\ forceFrameCount = 105

\* C4 as stated: FM_FULL is selected at least once in every 101 consecutive
\* frame-bearing calls, i.e. never 101 such calls in a row without FM_FULL.
C4_Original == sinceFull <= 100

\* C4 amended: FM_FULL is selected at least once in every 102 consecutive
\* frame-bearing calls: at most 101 calls in a row select another mode.
C4_Window102 == sinceFull <= 101

\* 101 unchanged frames in a row after a keyframe, none of them FM_FULL.
C4_Witness ==
    sinceFull = 101 /\ forceFrameCount = 101 /\ lastFrameMode = FM_NONE

\* C5 as stated: every FM_CHECKER call is followed on the next frame-bearing
\* call by FM_CHECKER_COMPL, and FM_CHECKER_COMPL is selected only then.
C5_Original ==
    [][ call' = "frame" =>
          /\ (lastFrameMode = FM_CHECKER => lastFrameMode' = FM_CHECKER_COMPL)
          /\ (lastFrameMode' = FM_CHECKER_COMPL => lastFrameMode = FM_CHECKER) ]_vars

\* C5 amended: the frame-bearing call after a FM_CHECKER call selects
\* FM_CHECKER_COMPL unless forceFrameCount exceeds 100 at its entry, when it
\* selects FM_FULL; FM_CHECKER_COMPL is selected only right after FM_CHECKER.
C5_Pairs ==
    [][ call' = "frame" =>
          /\ (lastFrameMode = FM_CHECKER =>
                lastFrameMode' = IF forceFrameCount > 100 THEN FM_FULL
                                 ELSE FM_CHECKER_COMPL)
          /\ (lastFrameMode' = FM_CHECKER_COMPL => lastFrameMode = FM_CHECKER) ]_vars

\* A pair has just been completed by its complementary phase.
C5_Witness ==
    call = "frame" /\ lastFrameMode = FM_CHECKER_COMPL /\ checker = 0

\* C6: a frame-bearing call made while connected writes exactly one message,
\* whose mode code is the selected mode; FM_CHECKER goes out as code 3 sampled
\* with phase 0 and FM_CHECKER_COMPL as code 4 sampled with phase 1 (checker,
\* toggled by the call, then reads 1 and 0).
C6_ModeCode ==
    (call = "frame" /\ sock = "Connected") =>
        /\ Len(written) >= 1
        /\ written[1][1] = "mode"
        /\ \A i \in 2..Len(written) : written[i][1] # "mode"
        /\ written[1][2] = lastFrameMode
        /\ (lastFrameMode = FM_CHECKER => written[1][2] = 3 /\ checker = 1)
        /\ (lastFrameMode = FM_CHECKER_COMPL => written[1][2] = 4 /\ checker = 0)

\* C7: in every FM_FULL, FM_DIFF and checker message the length field is the
\* number of bytes the encoder produced, and that many payload bytes follow.
C7_LengthField ==
    (call = "frame" /\ sock = "Connected" /\ lastFrameMode # FM_NONE) =>
        /\ \E i \in 1..Len(written) : written[i] = <<"len", encSize>>
        /\ written[Len(written)] = <<"data", encSize>>

\* C8 as stated: a call that selects FM_NONE writes nothing.
C8_Original ==
    (call = "frame" /\ lastFrameMode = FM_NONE) => written = <<>>

\* C8 amended: a call that selects FM_NONE sends no payload: all it writes is
\* the 2-byte mode code 0, and it writes that whenever the socket is connected.
C8_NoPayload ==
    (call = "frame" /\ lastFrameMode = FM_NONE) =>
        /\ written \in { <<>>, << <<"mode", 0>> >> }
        /\ (sock = "Connected" => written = << <<"mode", 0>> >>)

\* A FM_NONE call has written its mode code.
C8_Witness ==
    call = "frame" /\ lastFrameMode = FM_NONE /\ written = << <<"mode", 0>> >>

\* C9 as stated: a frame identical to the one of the preceding frame-bearing
\* call always has imageDiff report 0 and yields FM_NONE.
C9_Original ==
    [][ (call' = "frame" /\ frames >= 1 /\ frameData' = frameData) =>
          ranDiff' /\ numSq' = 0 /\ lastFrameMode' = FM_NONE ]_vars

\* C9 amended: when imageDiff runs on a frame identical to the one of the
\* preceding frame-bearing call, and that call was the first call or selected
\* FM_NONE or FM_DIFF, imageDiff reports 0 and the mode is FM_NONE.
C9_Identical ==
    [][ ( /\ call' = "frame" /\ frames >= 1 /\ frameData' = frameData
          /\ ranDiff'
          /\ (frames = 1 \/ lastFrameMode \in {FM_NONE, FM_DIFF}) ) =>
          numSq' = 0 /\ lastFrameMode' = FM_NONE ]_vars

\* The second call found its frame equal to lastImage right after a keyframe.
C9_Witness ==
    /\ call = "frame" /\ frames = 2 /\ ranDiff /\ numSq = 0
    /\ lastFrameMode = FM_NONE /\ forceFrameCount = 1 /\ lastImage = frameData

\* Every block of the frame differs from the block of lastImage beyond the
\* threshold.
AllDiffer(last, frame) == \A r \in Runs : SqDiffOf[last[r], frame[r]] = 1

\* C10 as stated: whenever every block differs from lastImage beyond the
\* threshold, the count is 1200 and the mode is FM_CHECKER.
C10_Original ==
    [][ (call' = "frame" /\ lastImage # NULL /\ AllDiffer(lastImage, frameData')) =>
          numSq' = 1200 /\ lastFrameMode' = FM_CHECKER ]_vars

\* C10 amended: for such a frame the mode is never FM_DIFF; when imageDiff
\* runs (forceFrameCount <= 100 and the last mode not FM_CHECKER) the count is
\* 1200 and the mode FM_CHECKER, and otherwise the mode is the forced FM_FULL
\* or FM_CHECKER_COMPL.
C10_AllDirty ==
    [][ (call' = "frame" /\ lastImage # NULL /\ AllDiffer(lastImage, frameData')) =>
          /\ lastFrameMode' # FM_DIFF
          /\ IF forceFrameCount <= 100 /\ lastFrameMode # FM_CHECKER
             THEN ranDiff' /\ numSq' = 1200 /\ lastFrameMode' = FM_CHECKER
             ELSE lastFrameMode' \in {FM_FULL, FM_CHECKER_COMPL} ]_vars

\* imageDiff has just found all 1200 blocks changed.
C10_Witness ==
    call = "frame" /\ ranDiff /\ numSq = 1200 /\ lastFrameMode = FM_CHECKER

\* The set of the elements of a sequence.
Range(q) == {q[k] : k \in 1..Len(q)}

\* C11: of two consecutive checker calls (FM_CHECKER then FM_CHECKER_COMPL)
\* no pixel position is sampled by both and every position of a row of the
\* 240x320 frame is sampled by one of them, each position once; in row j a
\* call entered with checker c samples the columns i with i + j + c even, so
\* the phase alternates per row and per call; each call samples
\* width*height/2 pixels in all.
C11_CheckerCover ==
    /\ (smp.stage = "rows" /\ smp.j >= 1) =>
          /\ Range(smp.first.cols) \cap Range(smp.second.cols) = {}
          /\ Range(smp.first.cols) \cup Range(smp.second.cols) = 0..(FrameWidth - 1)
          /\ Len(smp.first.cols) + Len(smp.second.cols) = FrameWidth
          /\ Range(smp.first.cols) =
                {i \in 0..(FrameWidth - 1) :
                    (i + (smp.j - 1) + smp.first.checker) % 2 = 0}
          /\ Range(smp.second.cols) =
                {i \in 0..(FrameWidth - 1) :
                    (i + (smp.j - 1) + smp.second.checker) % 2 = 0}
          /\ smp.second.checker = 1 - smp.first.checker
    /\ smp.stage = "done" =>
          /\ smp.first.count = (FrameWidth * FrameHeight) \div 2
          /\ smp.second.count = (FrameWidth * FrameHeight) \div 2

\* Both calls have sampled all 320 rows, the first one entered with checker 0:
\* in the last row, an odd one, it took the odd columns and the other call the
\* even ones.
C11_Witness ==
    /\ smp.stage = "done" /\ smp.j = FrameHeight
    /\ smp.first.checker = 1 /\ smp.second.checker = 0
    /\ smp.first.cols[1] = 1 /\ smp.second.cols[1] = 0
    /\ smp.first.count + smp.second.count = FrameWidth * FrameHeight

\* The blocks of the raster px, numbered in row-major order from 0, and the
\* offset of the first byte of block b.
PxBlocks == 0..((px.width \div 8) * (px.height \div 8) - 1)
PxOff(b) ==
    (b \div (px.width \div 8)) * 8 * px.width * 3 + (b % (px.width \div 8)) * 8 * 3
PxBlock(img, b) == BlockAt(img, PxOff(b), px.width * 3)

\* Bit i of a bitmap: byte i div 8, mask 1 << (i mod 8).
BitSet(map, i) == (map[(i \div 8) + 1] \div (2 ^ (i % 8))) % 2 = 1

\* The packed buffer decoded over a copy of the prior image: the k-th set bit
\* of the bitmap, in row-major order, takes the k-th 8x8 block of the buffer.
RECURSIVE Decoded(_, _, _, _, _)
Decoded(img, map, buf, b, k) ==
    IF b \notin PxBlocks THEN img
    ELSE IF BitSet(map, b)
    THEN Decoded(WithBlockAt(img, PxOff(b), px.width * 3,
                             [x \in 1..BlockBytes |-> buf[BlockBytes * k + x]]),
                 map, buf, b + 1, k + 1)
    ELSE Decoded(img, map, buf, b + 1, k)

\* C12: after imageDiff, a copy of the prior lastImage in which the k-th set
\* bit of diffMap takes the k-th block of diffBuf has every dirty block equal
\* to the block of the current frame, and is the updated lastImage.
C12_DiffRoundTrip ==
    px.stage = "out" =>
        \E dec \in {Decoded(px.lastImage, px.res.diffMap, px.res.diffBuf, 0, 0)} :
            /\ \A b \in PxBlocks :
                  BitSet(px.res.diffMap, b) =>
                      PxBlock(dec, b) = PxBlock(px.currentImage, b)
            /\ dec = px.res.lastImage

\* Two blocks were dirty and packed one after the other: a white one, then
\* one that is one byte over the threshold.
C12_Witness ==
    /\ px.stage = "out" /\ px.res.numSqDiff = 2
    /\ px.res.diffBuf[1] = 255 /\ px.res.diffBuf[BlockBytes + 1] = 1
    /\ px.res.diffBuf[2 * BlockBytes] = 2
    /\ px.res.lastImage = px.currentImage /\ px.lastImage # px.currentImage

\* The sum of the absolute differences of rows from..7 of two blocks, and of
\* the bytes k..24 of row r.
RECURSIVE RowAbsSum(_, _, _, _)
RowAbsSum(b1, b2, r, k) ==
    IF k > 8 * 3 THEN 0
    ELSE Abs(b1[r * 8 * 3 + k] - b2[r * 8 * 3 + k]) + RowAbsSum(b1, b2, r, k + 1)
RECURSIVE BlockAbsSum(_, _, _)
BlockAbsSum(b1, b2, from) ==
    IF from > 7 THEN 0
    ELSE RowAbsSum(b1, b2, from, 1) + BlockAbsSum(b1, b2, from + 1)

\* C19: after imageDiff, for every block i in row-major order, bit i of
\* diffMap (byte i div 8, mask 1 << (i mod 8)) is set iff the absolute
\* differences over all 64 pixels of block i, between lastImage as it was at
\* entry and the current frame, sum to more than 192, whatever the bit was
\* before, so that the bit of every block is rewritten; the value returned is
\* the number of those bits that are set.  The 1200 blocks of the 240x320
\* frame have the 1200 bits of diffMap.
C19_DirtyBits ==
    /\ TotalBlocks = 8 * DiffMapSize
    /\ px.stage = "out" =>
          /\ \A b \in PxBlocks :
                BitSet(px.res.diffMap, b) <=>
                    BlockAbsSum(PxBlock(px.lastImage, b),
                                PxBlock(px.currentImage, b), 0) > 192
          /\ px.res.numSqDiff = Cardinality({b \in PxBlocks : BitSet(px.res.diffMap, b)})
          /\ \A k \in 1..DiffMapSize :
                (\A b \in PxBlocks : b \div 8 # k - 1) =>
                    px.res.diffMap[k] = px.diffMap[k]

\* Nine blocks in a row whose bits were all set before: the first and the
\* eighth, the one of mask 0x80, were found changed; the six in between had
\* their bits cleared in the first byte of the bitmap, and the ninth had its
\* bit cleared in the second byte.
C19_Witness ==
    /\ px.stage = "out" /\ px.width = 72 /\ px.height = 8
    /\ px.diffMap[1] = 255 /\ px.diffMap[2] = 255
    /\ px.res.diffMap[1] = 129 /\ px.res.diffMap[2] = 254
    /\ px.res.numSqDiff = 2 /\ px.res.mapPos = 1 /\ px.res.mapMask = 2

\* C20: imageDiff leaves the current frame as it was, makes every dirty block
\* of lastImage equal to the block of the current frame and leaves every
\* other block of lastImage byte for byte as it was.
C20_OnlyDirty ==
    px.stage = "out" =>
        /\ px.res.currentImage = px.currentImage
        /\ Len(px.res.lastImage) = Len(px.lastImage)
        /\ \A b \in PxBlocks :
              PxBlock(px.res.lastImage, b) =
                  IF BitSet(px.res.diffMap, b) THEN PxBlock(px.currentImage, b)
                  ELSE PxBlock(px.lastImage, b)

\* Of two blocks side by side one was dirty and copied, the other differed
\* by exactly the threshold and was kept.
C20_Witness ==
    /\ px.stage = "out" /\ px.width = 16 /\ px.res.numSqDiff = 1
    /\ px.res.lastImage # px.lastImage /\ px.res.lastImage # px.currentImage
    /\ PxBlock(px.lastImage, 0) = BlkZero /\ PxBlock(px.currentImage, 0) = BlkEdge
    /\ PxBlock(px.res.lastImage, 0) = BlkZero /\ PxBlock(px.res.lastImage, 1) = BlkWhite

\* In the claims below on the pump over a peer that comes and goes, a step
\* that leaves peer alone is a call of the pump.

\* C13: every call first runs the connection maintenance: not connected with
\* the wait counter at 0, it makes a connection attempt and arms the counter
\* to 300; not connected with the counter above 0, it decrements the counter
\* and makes no attempt; connected, it makes no attempt and leaves the
\* counter.  An attempt other than the first comes after exactly 300 calls in
\* a row that found the socket not connected and made no attempt.
C13_Maintenance ==
    [][ peer' = peer =>
          /\ IF sock # "Connected" /\ waitConnection = 0
             THEN attempt' /\ waitConnection' = 300
             ELSE IF sock # "Connected"
             THEN ~attempt' /\ waitConnection' = waitConnection - 1
             ELSE ~attempt' /\ waitConnection' = waitConnection
          /\ ((attempt' /\ call # "init") => idleCalls = 300) ]_vars

\* A second attempt against a peer that has not been reached, 300 calls
\* after the first one.
C13_Witness ==
    /\ attempt /\ sock # "Connected" /\ waitConnection = 300
    /\ idleCalls = 0 /\ call = "frame" /\ lastFrameMode = FM_CHECKER /\ drops = fcalls

\* C14: with a peer that is never reachable the socket never becomes
\* connected, every call that makes no attempt decrements the wait counter,
\* no call writes anything and every call returns 0.
C14_Unreachable ==
    [][ /\ sock' # "Connected"
        /\ (attempt' \/ waitConnection' = waitConnection - 1)
        /\ written' = <<>>
        /\ retval' = 0 ]_vars

\* Three frames were supplied and dropped, the last one on the call of a
\* later connection attempt.
C14_Witness ==
    /\ call = "frame" /\ attempt /\ fcalls = 3 /\ drops = 3
    /\ lastFrameMode = FM_CHECKER_COMPL /\ forceFrameCount = 6
    /\ written = <<>> /\ retval = 0

\* C15: a frame-bearing call that finds the socket not connected after the
\* maintenance writes nothing, and what any frame-bearing call writes is the
\* message of its own frame, or the start of it if the connection is lost on
\* the way: nothing of an earlier frame is written later.
C15_NoQueue ==
    [][ (peer' = peer /\ call' = "frame") =>
          /\ (SockAfterMaint # "Connected" => written' = <<>>)
          /\ \E n \in 0..4 :
                written' = SubSeq(Sends(lastFrameMode', checker, encSize'), 1, n) ]_vars

\* A keyframe was dropped; the call that made the connection found the same
\* frame again and wrote the FM_NONE message only.
C15_Witness ==
    /\ call = "frame" /\ attempt /\ sock = "Connected"
    /\ drops = 1 /\ fcalls = 2 /\ lastFrameMode = FM_NONE
    /\ written = << <<"mode", 0>> >>

\* C16: a call without a frame runs the maintenance, writes nothing, leaves
\* lastFrameMode, forceFrameCount, checker, lastImage and diffMap as they
\* were and returns the byte that was there to read, 0 if there was none.
C16_PollOnly ==
    [][ (peer' = peer /\ call' = "poll") =>
          /\ attempt' = (sock # "Connected" /\ waitConnection = 0)
          /\ (sock # "Connected" =>
                waitConnection' = IF waitConnection = 0 THEN 300
                                  ELSE waitConnection - 1)
          /\ written' = <<>>
          /\ retval' = IF avail' = <<>> THEN 0 ELSE avail'[1]
          /\ UNCHANGED <<lastFrameMode, forceFrameCount, checker, lastImage,
                         diffMap>> ]_vars

\* A poll-only call after two frames returned the byte of the peer.
C16_Witness ==
    /\ call = "poll" /\ retval = 255 /\ avail = <<255>> /\ written = <<>>
    /\ lastFrameMode = FM_CHECKER /\ forceFrameCount = 3 /\ checker = 1
    /\ lastImage = <<"W", "W", "W">> /\ frameData = <<"W", "W", "W">>

\* C17: when a call takes the socket from not connected to connected,
\* lastFrameMode, forceFrameCount and checker are back at their initial
\* values before a frame is selected: after a poll-only call they are
\* FM_NONE, 0 and 0, and a frame-bearing call selects as the first step from
\* them would (never the complementary phase, the counter at most one
\* increment from 0).
C17_ResetOnReconnect ==
    [][ (peer' = peer /\ sock # "Connected" /\ sock' = "Connected") =>
          IF call' = "poll"
          THEN lastFrameMode' = FM_NONE /\ forceFrameCount' = 0 /\ checker' = 0
          ELSE /\ lastFrameMode' # FM_CHECKER_COMPL
               /\ forceFrameCount' = NextForceCount(0, lastFrameMode')
               /\ checker' = NextChecker(0, lastFrameMode') ]_vars

\* C18: after the first frame-bearing call, each of up to 50 further
\* frame-bearing calls in a row that supply the same frame selects FM_NONE and
\* adds 1 to forceFrameCount, which counts them; the socket stays connected
\* and no call makes a connection attempt.
C18_SameFrame ==
    (same >= 1 /\ same <= ScenarioLen) =>
        /\ lastFrameMode = FM_NONE
        /\ forceFrameCount = same
        /\ sock = "Connected"
        /\ ~attempt

\* The 50th repetition of a first frame that is not black.
C18_Witness ==
    /\ same = ScenarioLen /\ call = "frame" /\ forceFrameCount = 50
    /\ frameData = <<"W", "Z", "Z">> /\ lastImage = frameData
    /\ lastFrameMode = FM_NONE /\ sock = "Connected"

\* sizeof(diffBuf): room for the 1200 blocks of a frame.
DiffBufSize == 240 * 320 * 3

\* C21: whenever FM_DIFF is selected imageDiff has run and reported between 1
\* and 400 differing blocks, so the image handed to the encoder from diffBuf
\* is 8 pixels wide and between 8 and 3200 pixels high; and after every run of
\* imageDiff, whatever mode follows, the offset 192 * numSq up to which
\* diffBuf was written is within the buffer.
C21_DiffBounds ==
    call = "frame" =>
        /\ (lastFrameMode = FM_DIFF =>
              /\ ranDiff
              /\ numSq >= 1 /\ numSq <= 400
              /\ 8 * numSq >= 8 /\ 8 * numSq <= 3200)
        /\ (ranDiff => DiffBufOffset(numSq) <= DiffBufSize)

\* FM_DIFF was selected for exactly 400 differing blocks, the most it takes.
C21_Witness ==
    /\ call = "frame" /\ lastFrameMode = FM_DIFF /\ ranDiff /\ numSq = 400
    /\ DiffBufOffset(numSq) = 76800 /\ encSize > 0

\* C22: forceFrameCount is always between 0 and 105, and a frame-bearing call
\* entered with forceFrameCount above 100 selects FM_FULL and leaves the
\* counter at 0, so that no two frame-bearing calls in a row are entered with
\* the counter above 100; poll-only calls leave the counter alone.
C22_CounterRange ==
    /\ [](forceFrameCount >= 0 /\ forceFrameCount <= 105)
    /\ [][ /\ ((call' = "frame" /\ forceFrameCount > 100) =>
                  lastFrameMode' = FM_FULL /\ forceFrameCount' = 0)
           /\ (call' = "poll" => forceFrameCount' = forceFrameCount) ]_vars

\* A keyframe was forced in the place of a complementary phase: the counter
\* had passed 100 on a FM_CHECKER call, whose toggle of checker still stands.
C22_Witness ==
    /\ call = "frame" /\ frames = 2 /\ lastFrameMode = FM_FULL /\ ~ranDiff
    /\ forceFrameCount = 0 /\ checker = 1

\* C23: after every frame-bearing call that selected FM_FULL, the first call
\* and the forced keyframes alike, lastImage holds the frame of that call.
C23_KeyframeReference ==
    (call = "frame" /\ lastFrameMode = FM_FULL) => lastImage = frameData

\* The statics and globals of the mode selection: what a frame-bearing call
\* reads of earlier calls to select its mode.
ModeState ==
    [lastImage |-> lastImage, diffMap |-> diffMap,
     forceFrameCount |-> forceFrameCount, checker |-> checker,
     lastFrameMode |-> lastFrameMode]

\* Their values before any call.
ModeInit ==
    [lastImage |-> NULL, diffMap |-> [r \in Runs |-> FALSE],
     forceFrameCount |-> 0, checker |-> 0, lastFrameMode |-> FM_NONE]

\* What a frame-bearing call makes of them for the frame f, nothing of the
\* socket being looked at.
ModeStep(ms, f) ==
    LET sel == Select(ms.forceFrameCount, ms.lastFrameMode, ms.lastImage,
                      ms.diffMap, f)
    IN [lastImage |-> sel.lastImage, diffMap |-> sel.diffMap,
        forceFrameCount |-> NextForceCount(ms.forceFrameCount, sel.mode),
        checker |-> NextChecker(ms.checker, sel.mode),
        lastFrameMode |-> sel.mode]

\* The first k frames of h taken one after the other from ModeInit.
RECURSIVE Replay(_, _)
Replay(h, k) == IF k = 0 THEN ModeInit ELSE ModeStep(Replay(h, k - 1), h[k])

\* C24: the selected mode, forceFrameCount, checker, lastImage and diffMap
\* after any number of calls are those the frames supplied so far give when
\* taken one after the other with no socket at all: they depend on the
\* sequence of frames only, so two runs given the same frames agree on them
\* after every call, however the connection of either behaved (connected,
\* unreachable, lost during a call, re-established), and a frame that was
\* dropped advances them as one that was delivered.
C24_TransportBlind == ModeState = Replay(hist, Len(hist))

\* Four frames were supplied: two went out, the connection was lost while the
\* third was written and the fourth was dropped; the modes are those of four
\* delivered frames.
C24_Witness ==
    /\ call = "frame" /\ hist = << <<"Z", "Z", "Z">>, <<"W", "W", "W">>,
                                   <<"W", "W", "W">>, <<"Z", "Z", "Z">> >>
    /\ drops = 1 /\ written = <<>> /\ sock # "Connected"
    /\ lastFrameMode = FM_CHECKER /\ forceFrameCount = 9 /\ checker = 1
    /\ lastImage = <<"Z", "Z", "Z">>

\* C25: the first message with a payload on a newly made connection is a
\* FM_FULL one; for the frame-bearing call that makes the connection, whose
\* writes are the first on it: what it writes starts with the mode code of
\* FM_FULL, or is the FM_NONE message, which has no payload.
C25_KeyframeFirst ==
    [][ ( /\ peer' = peer /\ call' = "frame"
          /\ ConnectAttempt /\ SockAfterMaint = "Connected"
          /\ written' # <<>> ) =>
          written'[1] \in { <<"mode", FM_NONE>>, <<"mode", FM_FULL>> } ]_vars

\* C26: of the separate writes of a frame-bearing call (mode code, length,
\* bitmap, payload) either all are made or none is, also when the socket's
\* state changes between them: what the call writes is its whole message or
\* nothing.
C26_AtomicMessage ==
    [][ (peer' = peer /\ call' = "frame") =>
          \/ written' = <<>>
          \/ written' = Sends(lastFrameMode', checker, encSize') ]_vars
====
